---- MODULE Spec2Model ----
(***************************************************************************)
(* State-machine model of the bmad-ui backend core:                        *)
(*   - the workflow handlers and the execution loop of backend/main.py,    *)
(*   - the agent pool and deployment table of                              *)
(*     backend/agent_orchestrator.py,                                      *)
(*   - the connection manager of backend/websocket_manager.py.             *)
(* The server runs on one asyncio event loop: a handler or coroutine runs  *)
(* without interruption from one suspension point (an await that reaches   *)
(* the transport or a timer) to the next, so each action below is the code *)
(* between two suspension points.                                          *)
(***************************************************************************)
EXTENDS Integers, Sequences, FiniteSets, TLC

(***************************************************************************)
(* Bounds of the model.                                                    *)
(***************************************************************************)
\* length of the step list of a run (the list of get_workflow_config)
NumSteps == 2
\* accepted start_workflow requests, over all projects
MaxStarts == 2
\* stop_workflow requests, over all projects
MaxStops == 2
\* accepted pause_workflow requests, over all projects
MaxPauses == 1
\* deploy_agents calls that reach the history
MaxDeploys == 2
\* length of the agent id list of one deploy_agents call
MaxRequest == 2
\* completions counted in tasks_completed, over all agents
MaxCompletions == 2
\* simulate_agent_work calls
MaxSims == 1
\* seconds the wall clock advances
MaxTime == 1
\* broadcast and broadcast_to_project calls
MaxBroadcasts == 2
\* "subscribe" and unsubscribe requests one websocket makes
MaxMessages == 2
\* log entries one deployment record is given, its first entry included
MaxLogged == 61

(***************************************************************************)
(* Program constants.                                                      *)
(***************************************************************************)
\* range(0, 101, 10): the progress ladder of execute_workflow
LadderStop == 101
LadderStep == 10
\* range(0, 101, 10): the progress ladder of simulate_agent_work
SimLadderStop == 101
SimLadderStep == 10
\* logs[-50:]: the log entries update_agent_progress keeps
LogCap == 50

Projects == {"p1"}

\* the agent ids of the pool the model follows (the pool holds six), an id
\* that is not in the pool, and the projects agents are deployed to
Agents == {"pm", "architect"}
UnknownAgent == "ghost"
AgentProjects == {"p1", "p2"}
Tasks == {"design"}

\* the websockets (observers) and the project ids they subscribe to
Observers == {"w1", "w2"}
WsProjects == {"p1", "p2"}

\* Python's None where a run is expected
None == 0
\* Python's None where a task name is expected
NoTask == "none"

VARIABLES
    active_workflows,   \* main.active_workflows: project id -> run (a number of runs)
    runs,               \* the run dicts ever created, in creation order
    tasks,              \* the background tasks execute_workflow, task i launched with
                        \* runs[i]; tasks[i].emitted are the messages it broadcast
    stops,              \* the stop_workflow calls made so far
    events,             \* per project, the messages its request handlers broadcast
    start_response,     \* outcome of the start_workflow request that returned last
    agent_pool,         \* AgentOrchestrator.agent_pool: agent id -> runtime fields
    active_agents,      \* AgentOrchestrator.active_agents, in insertion order
    deployment_history, \* AgentOrchestrator.deployment_history
    performance_metrics,\* AgentOrchestrator.performance_metrics
    sims,               \* the simulate_agent_work coroutines started so far
    now,                \* datetime.now(), in whole seconds
    result,             \* what the orchestrator call that returned last returned
    active_connections, \* ConnectionManager.active_connections (a list)
    project_subscriptions, \* ConnectionManager.project_subscriptions
    connection_metadata,\* ConnectionManager.connection_metadata: websocket ->
                        \* its "subscriptions" set
    sockets,            \* per websocket, the state of its websocket_endpoint
                        \* coroutine and of its transport
    inbox,              \* per websocket, the broadcast messages its transport took
    broadcasts          \* the broadcast and broadcast_to_project calls so far;
                        \* message i is the one of call i

wfvars == <<active_workflows, runs, tasks, stops, events, start_response>>

aovars == <<agent_pool, active_agents, deployment_history, performance_metrics,
            sims, now, result>>

wsvars == <<active_connections, project_subscriptions, connection_metadata,
            sockets, inbox, broadcasts>>

vars == <<active_workflows, runs, tasks, stops, events, start_response,
          agent_pool, active_agents, deployment_history, performance_metrics,
          sims, now, result,
          active_connections, project_subscriptions, connection_metadata,
          sockets, inbox, broadcasts>>

(***************************************************************************)
(* Helpers on the state.                                                   *)
(***************************************************************************)
RunIds == 1..Len(runs)

\* a fresh step of the configuration: no "status" and no "result" key yet
NewStep == [status |-> "none", result |-> FALSE]

\* the dict start_workflow stores
NewRun(p) ==
    [project |-> p, status |-> "running", current_step |-> 0,
     steps |-> [i \in 1..NumSteps |-> NewStep], error |-> FALSE]

\* a message of manager.broadcast; run is the run the emitting code acted
\* on (the messages themselves carry the project id only)
Event(type, r, idx, progress) ==
    [type |-> type, run |-> r, step_index |-> idx, progress |-> progress]

\* manager.broadcast called by a request handler for project p
Emit(p, e) == [events EXCEPT ![p] = Append(@, e)]

Response(p, code) == [project |-> p, code |-> code]

\* dict insertion and deletion
DictPut(d, k, v) == [x \in DOMAIN d \cup {k} |-> IF x = k THEN v ELSE d[x]]
DictDel(d, k) == [x \in DOMAIN d \ {k} |-> d[x]]

CountType(s, type) == Cardinality({i \in DOMAIN s : s[i].type = type})

(***************************************************************************)
(* Init: the module-level state of main.py after import.                   *)
(***************************************************************************)
\* initialize (agent_orchestrator.py 69-81)
InitialMetrics == [a \in Agents |-> [tasks_completed |-> 0]]

\* AgentOrchestrator.__init__ (agent_orchestrator.py 13-67), then initialize:
\* startup_event (main.py 79-85) calls it before any request is served
InitAgents ==
    /\ agent_pool = [a \in Agents |->
            [status |-> "available", current_task |-> NoTask, load |-> 0]]
    /\ active_agents = <<>>
    /\ deployment_history = <<>>
    /\ performance_metrics = InitialMetrics
    /\ sims = <<>>
    /\ now = 0
    /\ result = [op |-> "none"]

\* ConnectionManager.__init__ (websocket_manager.py 13-16); no websocket has
\* reached the endpoint yet
InitManager ==
    /\ active_connections = <<>>
    /\ project_subscriptions = <<>>
    /\ connection_metadata = <<>>
    /\ sockets = [w \in Observers |-> [endpoint |-> "idle", link |-> "up", handled |-> 0]]
    /\ inbox = [w \in Observers |-> <<>>]
    /\ broadcasts = <<>>

Init ==
    /\ InitAgents
    /\ InitManager
    /\ active_workflows = <<>>
    /\ runs = <<>>
    /\ tasks = <<>>
    /\ stops = <<>>
    /\ events = [p \in Projects |-> <<>>]
    /\ start_response = Response("none", 0)

(***************************************************************************)
(* start_workflow (main.py 162-194).  get_workflow_config contains no      *)
(* suspension point, so the handler runs from the check to the return in   *)
(* one piece.  The HTTPException(400) of line 167 is raised inside the try *)
(* and re-raised by line 194 with status 500.                              *)
(***************************************************************************)
\* the check of line 166 left out
StartCheckNever(p) == FALSE

StartCheck(p) == p \in DOMAIN active_workflows

StartWorkflow(p) ==
    IF StartCheck(p)
    THEN /\ start_response' = Response(p, 500)
         /\ UNCHANGED <<active_workflows, runs, tasks, stops, events>>
    ELSE /\ Len(runs) < MaxStarts
         /\ runs' = Append(runs, NewRun(p))
         /\ active_workflows' = DictPut(active_workflows, p, Len(runs) + 1)
         /\ tasks' = Append(tasks, [project |-> p, pc |-> "begin", workflow |-> None,
                                    step_index |-> 0, progress |-> 0,
                                    emitted |-> <<>>])
         /\ start_response' = Response(p, 200)
         /\ UNCHANGED <<stops, events>>

(***************************************************************************)
(* pause_workflow (main.py 196-209).  An unknown project is answered 404   *)
(* and changes nothing.                                                    *)
(***************************************************************************)
PauseWorkflow(p) ==
    IF p \notin DOMAIN active_workflows
    THEN UNCHANGED wfvars
    ELSE /\ CountType(events[p], "workflow_paused") < MaxPauses
         /\ runs' = [runs EXCEPT ![active_workflows[p]].status = "paused"]
         /\ events' = Emit(p, Event("workflow_paused", active_workflows[p], -1, -1))
         /\ UNCHANGED <<active_workflows, tasks, stops, start_response>>

(***************************************************************************)
(* stop_workflow (main.py 211-224): up to the sleep of line 216, and from  *)
(* the sleep to the return.  del of a missing key raises KeyError, which   *)
(* the handler does not catch (an internal error, no broadcast).           *)
(***************************************************************************)
StopWorkflow(p) ==
    /\ Len(stops) < MaxStops
    /\ IF p \in DOMAIN active_workflows
       THEN /\ runs' = [runs EXCEPT ![active_workflows[p]].status = "stopped"]
            /\ stops' = Append(stops, [project |-> p, run |-> active_workflows[p],
                                       pc |-> "sleeping"])
            /\ UNCHANGED <<active_workflows, tasks, events, start_response>>
       ELSE /\ stops' = Append(stops, [project |-> p, run |-> None, pc |-> "done"])
            /\ events' = Emit(p, Event("workflow_stopped", None, -1, -1))
            /\ UNCHANGED <<active_workflows, runs, tasks, start_response>>

StopCleanup(i) ==
    /\ stops[i].pc = "sleeping"
    /\ LET p == stops[i].project IN
       IF p \in DOMAIN active_workflows
       THEN /\ active_workflows' = DictDel(active_workflows, p)
            /\ events' = Emit(p, Event("workflow_stopped", stops[i].run, -1, -1))
            /\ stops' = [stops EXCEPT ![i].pc = "done"]
            /\ UNCHANGED <<runs, tasks, start_response>>
       ELSE /\ stops' = [stops EXCEPT ![i].pc = "failed"]
            /\ UNCHANGED <<active_workflows, runs, tasks, events, start_response>>

(***************************************************************************)
(* execute_workflow (main.py 268-341).                                     *)
(***************************************************************************)
\* the test of line 324 left out
FinishCheckNever(r) == TRUE

\* the test of line 324
FinishCheck(r) == runs[r].status = "running"

\* lines 323-331, reached from the break of line 279 or the end of the list
Finish(t, r) ==
    IF FinishCheck(r)
    THEN /\ runs' = [runs EXCEPT ![r].status = "completed"]
         /\ tasks' = [tasks EXCEPT ![t].pc = "done", ![t].workflow = r,
                 ![t].emitted = Append(@, Event("workflow_completed", r, -1, -1))]
    ELSE /\ tasks' = [tasks EXCEPT ![t].pc = "done", ![t].workflow = r]
         /\ UNCHANGED runs

\* lines 277-290: one pass through the head of the for loop
LoopCheck(r) == runs[r].status = "running"

LoopIter(t, r, idx) ==
    IF idx < NumSteps /\ LoopCheck(r)
    THEN /\ runs' = [runs EXCEPT ![r].current_step = idx]
         /\ tasks' = [tasks EXCEPT ![t].pc = "exec", ![t].workflow = r,
                 ![t].step_index = idx,
                 ![t].emitted = Append(@, Event("step_started", r, idx, -1))]
    ELSE Finish(t, r)

\* lines 268-272, then the first pass of the loop
ExecBegin(t) ==
    /\ tasks[t].pc = "begin"
    /\ IF tasks[t].project \in DOMAIN active_workflows
       THEN LoopIter(t, active_workflows[tasks[t].project], 0)
       ELSE /\ tasks' = [tasks EXCEPT ![t].pc = "done"]
            /\ UNCHANGED runs
    /\ UNCHANGED <<active_workflows, stops, events, start_response>>

\* lines 310-321
CompleteStep(t, r, idx) ==
    /\ runs' = [runs EXCEPT ![r].steps[idx + 1] = [status |-> "completed", result |-> TRUE]]
    /\ tasks' = [tasks EXCEPT ![t].pc = "settle",
            ![t].emitted = Append(@, Event("step_completed", r, idx, -1))]

\* lines 296-308: one pass through the head of the progress loop
\* the check of line 297 left out
LadderCheckNever(r) == TRUE

LadderCheck(r) == runs[r].status = "running"

Ladder(t, r, idx, progress) ==
    IF progress < LadderStop /\ LadderCheck(r)
    THEN /\ tasks' = [tasks EXCEPT ![t].pc = "tick", ![t].progress = progress,
                 ![t].emitted = Append(@, Event("step_progress", r, idx, progress))]
         /\ UNCHANGED runs
    ELSE CompleteStep(t, r, idx)

\* line 293 and the first pass of the progress loop; the executor is an
\* external collaborator and may raise
ExecStep(t) ==
    /\ tasks[t].pc = "exec"
    /\ Ladder(t, tasks[t].workflow, tasks[t].step_index, 0)
    /\ UNCHANGED <<active_workflows, stops, events, start_response>>

\* the handler of lines 333-341 followed by another attempt at the step
ExecStepFailsRetries(t) ==
    /\ tasks[t].pc = "exec"
    /\ LET r == tasks[t].workflow IN
       /\ runs' = [runs EXCEPT ![r].status = "error", ![r].error = TRUE]
       /\ tasks' = [tasks EXCEPT ![t].pc = "exec",
               ![t].emitted = Append(@, Event("workflow_error", r, -1, -1))]
    /\ UNCHANGED <<active_workflows, stops, events, start_response>>

\* lines 333-341
ExecStepFails(t) ==
    /\ tasks[t].pc = "exec"
    /\ LET r == tasks[t].workflow IN
       /\ runs' = [runs EXCEPT ![r].status = "error", ![r].error = TRUE]
       /\ tasks' = [tasks EXCEPT ![t].pc = "done",
               ![t].emitted = Append(@, Event("workflow_error", r, -1, -1))]
    /\ UNCHANGED <<active_workflows, stops, events, start_response>>

\* after the sleep of line 308
Tick(t) ==
    /\ tasks[t].pc = "tick"
    /\ Ladder(t, tasks[t].workflow, tasks[t].step_index, tasks[t].progress + LadderStep)
    /\ UNCHANGED <<active_workflows, stops, events, start_response>>

\* after the sleep of line 321
Settle(t) ==
    /\ tasks[t].pc = "settle"
    /\ LoopIter(t, tasks[t].workflow, tasks[t].step_index + 1)
    /\ UNCHANGED <<active_workflows, stops, events, start_response>>

(***************************************************************************)
(* AgentOrchestrator (agent_orchestrator.py).  Its methods contain no      *)
(* suspension point except the sleep of simulate_agent_work, so each call  *)
(* is one action.                                                          *)
(***************************************************************************)
Min(a, b) == IF a < b THEN a ELSE b
Max(a, b) == IF a > b THEN a ELSE b

\* f"{deployment_id}_{agent_id}", deployment_id = f"deploy_{now to the second}_{project_id}"
DeploymentId(ts, p) == <<ts, p>>
DeploymentKey(ts, p, a) == <<ts, p, a>>

\* position of the entry under key in a table (0: the key is not in it)
IndexOf(table, key) ==
    IF \E i \in DOMAIN table : table[i].key = key
    THEN CHOOSE i \in DOMAIN table : table[i].key = key
    ELSE 0

\* table[key] = rec: a key already present keeps its place
StoreDeployment(table, rec) ==
    IF IndexOf(table, rec.key) = 0 THEN Append(table, rec)
    ELSE [table EXCEPT ![IndexOf(table, rec.key)] = rec]

\* del table[key] for the entry at position i
RemoveAt(table, i) ==
    [j \in 1..(Len(table) - 1) |-> IF j < i THEN table[j] ELSE table[j + 1]]

\* the decrement without its floor
LoadAfterReleaseNoFloor(load) == load - 1

\* max(0, load - 1) of lines 185 and 208
LoadAfterRelease(load) == Max(0, load - 1)

\* the release without the reset of the status
ReleaseAgentKeepsStatus(pool, a) ==
    [pool EXCEPT ![a] = [status |-> @.status, current_task |-> NoTask,
                         load |-> LoadAfterRelease(@.load)]]

\* lines 183-185 and 206-208: the agent goes back to the pool
ReleaseAgent(pool, a) ==
    [pool EXCEPT ![a] = [status |-> "available", current_task |-> NoTask,
                         load |-> LoadAfterRelease(@.load)]]

\* the test of line 101 left out
IsAvailableAlways(pool, a) == TRUE

\* the test of line 101
IsAvailable(pool, a) == pool[a].status = "available"

\* the "logs" of a new record (line 117).  A log entry is modelled by its
\* number: entry k is the k-th entry the record was ever given
FirstLogs == <<1>>

\* lines 91-131 for one requested id; st carries the pool, the table, the
\* metrics and the two result lists, and raised once line 131 has found no
\* metrics entry (KeyError: the loop is left for the handler of line 155).
\* Of the metrics only tasks_completed is followed, not the timestamp
\* last_deployment that line 131 stores.
\* The record's "status" is the pool's status at the copy of line 99: the
\* **agent of line 118 comes after the "status": "deployed" of line 115.
DeployOne(st, ts, p, task, a) ==
    IF a \notin DOMAIN st.pool
    THEN [st EXCEPT !.failed = Append(@, [agent_id |-> a,
                                          reason |-> <<"Agent not found in pool">>])]
    ELSE IF ~IsAvailable(st.pool, a)
    THEN [st EXCEPT !.failed = Append(@, [agent_id |-> a,
                                          reason |-> <<"Agent busy", st.pool[a].status>>])]
    ELSE [pool |-> [st.pool EXCEPT ![a] = [status |-> "deployed", current_task |-> task,
                                           load |-> @.load + 1]],
          table |-> StoreDeployment(st.table,
                        [key |-> DeploymentKey(ts, p, a), agent_id |-> a,
                         project_id |-> p, status |-> st.pool[a].status,
                         progress |-> 0, logs |-> FirstLogs]),
          metrics |-> st.metrics,
          deployed |-> Append(st.deployed, a),
          failed |-> st.failed,
          raised |-> a \notin DOMAIN st.metrics]

\* the loop left at the first id that fails
RECURSIVE DeployLoopStopsAtFailure(_, _, _, _, _)
DeployLoopStopsAtFailure(st, ts, p, task, ids) ==
    IF ids = <<>> \/ st.raised \/ st.failed # <<>> THEN st
    ELSE DeployLoopStopsAtFailure(DeployOne(st, ts, p, task, Head(ids)),
                                  ts, p, task, Tail(ids))

RECURSIVE DeployLoop(_, _, _, _, _)
DeployLoop(st, ts, p, task, ids) ==
    IF ids = <<>> \/ st.raised THEN st
    ELSE DeployLoop(DeployOne(st, ts, p, task, Head(ids)), ts, p, task, Tail(ids))

\* the record kept only when the batch deployed an agent
RecordDeploymentIfAny(history, rec) ==
    IF rec.agents_deployed = <<>> THEN history ELSE Append(history, rec)

\* self.deployment_history.append(deployment_record) of line 144
RecordDeployment(history, rec) == Append(history, rec)

\* deploy_agents (lines 83-162)
DeployAgents(p, ids, task) ==
    /\ Len(deployment_history) < MaxDeploys
    /\ LET st == DeployLoop([pool |-> agent_pool, table |-> active_agents,
                             metrics |-> performance_metrics, deployed |-> <<>>,
                             failed |-> <<>>, raised |-> FALSE],
                            now, p, task, ids)
       IN /\ agent_pool' = st.pool
          /\ active_agents' = st.table
          /\ performance_metrics' = st.metrics
          /\ IF st.raised
             THEN /\ result' = [op |-> "deploy", success |-> FALSE, error |-> TRUE,
                                deployed_agents |-> <<>>, failed_deployments |-> <<>>]
                  /\ UNCHANGED deployment_history
             ELSE /\ deployment_history' = RecordDeployment(deployment_history,
                        [deployment_id |-> DeploymentId(now, p), project_id |-> p,
                         task |-> task, agents_requested |-> ids,
                         agents_deployed |-> st.deployed,
                         failed_deployments |-> st.failed])
                  /\ result' = [op |-> "deploy", success |-> Len(st.deployed) > 0,
                                error |-> FALSE,
                                deployment_id |-> DeploymentId(now, p),
                                deployed_agents |-> st.deployed,
                                failed_deployments |-> st.failed,
                                total_requested |-> Len(ids),
                                total_deployed |-> Len(st.deployed)]
    /\ UNCHANGED <<sims, now>>

\* min(100, max(0, progress)) of line 168
ClampProgress(progress) == Min(100, Max(0, progress))

\* the test of line 177
IsComplete(progress) == progress >= 100

\* logs.extend(new) of line 172, for a list new of n entries
ExtendLogs(logs, n) == logs \o [k \in 1..n |-> logs[Len(logs)] + k]

\* the first entries kept instead of the last
KeepLogsOldest(logs) == SubSeq(logs, 1, Min(LogCap, Len(logs)))

\* logs[-50:] of line 174
KeepLogs(logs) == SubSeq(logs, Max(1, Len(logs) - LogCap + 1), Len(logs))

\* lines 171-174; logs is the number of entries of the list passed (0 for
\* None and for an empty list)
UpdateLogs(old, logs) == IF logs > 0 THEN KeepLogs(ExtendLogs(old, logs)) ELSE old

\* the record deleted at its completion
UpdateProgressDropsCompleted(st, key, progress, logs) ==
    LET i == IndexOf(st.table, key) IN
    IF i = 0 THEN [st EXCEPT !.ret = "False"]
    ELSE IF IsComplete(progress)
    THEN [st EXCEPT !.table = RemoveAt(@, i),
                    !.pool = ReleaseAgent(@, st.table[i].agent_id),
                    !.ret = "True"]
    ELSE [st EXCEPT !.table[i].progress = ClampProgress(progress), !.ret = "True"]

\* the value returned without the test of line 166
UpdateProgressAlwaysTrue(st, key, progress, logs) == [st EXCEPT !.ret = "True"]

\* update_agent_progress (lines 164-191) on the pool, table and metrics of
\* st; ret is the value returned, or "KeyError" when line 188 finds no
\* metrics entry
UpdateProgress(st, key, progress, logs) ==
    LET i == IndexOf(st.table, key) IN
    IF i = 0 THEN [st EXCEPT !.ret = "False"]
    ELSE LET a == st.table[i].agent_id
             t1 == [st.table EXCEPT ![i].progress = ClampProgress(progress),
                                    ![i].logs = UpdateLogs(@, logs)]
         IN IF IsComplete(progress)
            THEN [table |-> [t1 EXCEPT ![i].status = "completed"],
                  pool |-> ReleaseAgent(st.pool, a),
                  metrics |-> IF a \in DOMAIN st.metrics
                              THEN [st.metrics EXCEPT ![a].tasks_completed = @ + 1]
                              ELSE st.metrics,
                  ret |-> IF a \in DOMAIN st.metrics THEN "True" ELSE "KeyError"]
            ELSE [st EXCEPT !.table = t1, !.ret = "True"]

OrchestratorState ==
    [table |-> active_agents, pool |-> agent_pool, metrics |-> performance_metrics,
     ret |-> "none"]

TotalCompleted ==
    LET RECURSIVE Sum(_)
        Sum(S) == IF S = {} THEN 0
                  ELSE LET a == CHOOSE x \in S : TRUE
                       IN performance_metrics[a].tasks_completed + Sum(S \ {a})
    IN Sum(DOMAIN performance_metrics)

\* the keys a caller may pass: those of the table, those of the records
\* that are no longer in it, and one that never was in it
KnownKeys == {active_agents[i].key : i \in DOMAIN active_agents}
MissingKey == <<0, "none", UnknownAgent>>
RecalledKeys ==
    {DeploymentKey(deployment_history[i].deployment_id[1],
                   deployment_history[i].project_id,
                   deployment_history[i].agents_deployed[j]) :
        <<i, j>> \in {x \in (DOMAIN deployment_history) \X (1..MaxRequest) :
                        x[2] \in DOMAIN deployment_history[x[1]].agents_deployed}}
    \ KnownKeys
CallerKeys == KnownKeys \cup RecalledKeys \cup {MissingKey}

\* the lists a caller may pass as logs, by their length
NoLogs == 0
LogBatches == {0, 25, 60}

UpdateAgentProgress(key, progress, logs) ==
    /\ IsComplete(progress) => TotalCompleted < MaxCompletions
    /\ LET i == IndexOf(active_agents, key) IN
           i # 0 => active_agents[i].logs[Len(active_agents[i].logs)] + logs <= MaxLogged
    /\ LET st == UpdateProgress(OrchestratorState, key, progress, logs)
       IN /\ active_agents' = st.table
          /\ agent_pool' = st.pool
          /\ performance_metrics' = st.metrics
          /\ result' = [op |-> "update", key |-> key, ret |-> st.ret]
    /\ UNCHANGED <<deployment_history, sims, now>>

\* recall_agents (lines 193-217): the loop of line 197 over a copy of the
\* table, from position i on; rest is the table as left so far
RECURSIVE RecallLoop(_, _, _)
RecallLoop(st, items, p) ==
    IF items = <<>> THEN st
    ELSE LET rec == Head(items) IN
         IF rec.project_id = p
         THEN RecallLoop([pool |-> ReleaseAgent(st.pool, rec.agent_id),
                          table |-> RemoveAt(st.table, IndexOf(st.table, rec.key)),
                          recalled |-> Append(st.recalled, rec.agent_id)],
                         Tail(items), p)
         ELSE RecallLoop(st, Tail(items), p)

RecallAgents(p) ==
    /\ LET st == RecallLoop([pool |-> agent_pool, table |-> active_agents,
                             recalled |-> <<>>], active_agents, p)
       IN /\ agent_pool' = st.pool
          /\ active_agents' = st.table
          /\ result' = [op |-> "recall", success |-> TRUE,
                        recalled_agents |-> st.recalled,
                        total_recalled |-> Len(st.recalled)]
    /\ UNCHANGED <<deployment_history, performance_metrics, sims, now>>

\* simulate_agent_work (lines 303-324): from the call to the first sleep
SimulateAgentWork(key) ==
    /\ Len(sims) < MaxSims
    /\ TotalCompleted < MaxCompletions
    /\ IF IndexOf(active_agents, key) = 0
       THEN /\ sims' = Append(sims, [key |-> key, progress |-> 0, pc |-> "done"])
            /\ UNCHANGED <<agent_pool, active_agents, performance_metrics>>
       ELSE LET i == IndexOf(active_agents, key)
                st == UpdateProgress(
                          [OrchestratorState EXCEPT !.table[i].status = "active"],
                          key, 0, 1)
            IN /\ active_agents' = st.table
               /\ agent_pool' = st.pool
               /\ performance_metrics' = st.metrics
               /\ sims' = Append(sims, [key |-> key, progress |-> 0, pc |-> "sleeping"])
    /\ UNCHANGED <<deployment_history, now, result>>

\* simulate_agent_work: from one sleep of line 322 to the next
SimTick(i) ==
    /\ sims[i].pc = "sleeping"
    /\ LET progress == sims[i].progress + SimLadderStep IN
       IF progress >= SimLadderStop \/ IndexOf(active_agents, sims[i].key) = 0
       THEN /\ sims' = [sims EXCEPT ![i].pc = "done"]
            /\ UNCHANGED <<agent_pool, active_agents, performance_metrics>>
       ELSE /\ IsComplete(progress) => TotalCompleted < MaxCompletions
            /\ LET st == UpdateProgress(OrchestratorState, sims[i].key, progress, 1)
               IN /\ active_agents' = st.table
                  /\ agent_pool' = st.pool
                  /\ performance_metrics' = st.metrics
                  /\ sims' = [sims EXCEPT ![i].progress = progress,
                                          ![i].pc = IF st.ret = "KeyError" THEN "failed"
                                                    ELSE "sleeping"]
    /\ UNCHANGED <<deployment_history, now, result>>

\* the wall clock reaches the next second
AdvanceClock ==
    /\ now < MaxTime
    /\ now' = now + 1
    /\ UNCHANGED <<agent_pool, active_agents, deployment_history,
                   performance_metrics, sims, result>>

(***************************************************************************)
(* ConnectionManager (websocket_manager.py).  Every await of send_text is  *)
(* a suspension point: a broadcast runs from one send to the next, and     *)
(* between two sends any other handler or broadcast may run.  A send to a  *)
(* websocket whose transport is down raises.  inbox records the broadcast  *)
(* messages only, not the personal messages (welcome, confirmations).      *)
(***************************************************************************)
Range(s) == {s[i] : i \in DOMAIN s}

ManagerState ==
    [conns |-> active_connections, subs |-> project_subscriptions,
     meta |-> connection_metadata]

SetManager(m) ==
    /\ active_connections' = m.conns
    /\ project_subscriptions' = m.subs
    /\ connection_metadata' = m.meta

\* discard of w from the subscriber set of p, and del of a set left empty
\* (lines 45-48 and 125-128)
DropSubscription(subs, w, p) ==
    IF p \notin DOMAIN subs THEN subs
    ELSE IF subs[p] \ {w} = {} THEN DictDel(subs, p)
    ELSE [subs EXCEPT ![p] = @ \ {w}]

\* the loop of line 44 over the "subscriptions" set of the websocket
RECURSIVE DropSubscriptions(_, _, _)
DropSubscriptions(subs, w, ps) ==
    IF ps = {} THEN subs
    ELSE LET p == CHOOSE x \in ps : TRUE
         IN DropSubscriptions(DropSubscription(subs, w, p), w, ps \ {p})

\* disconnect (lines 36-52): the subscriptions cleaned are those the
\* metadata of the websocket lists
Disconnect(m, w) ==
    [conns |-> SelectSeq(m.conns, LAMBDA x : x # w),
     subs |-> IF w \in DOMAIN m.meta THEN DropSubscriptions(m.subs, w, m.meta[w])
              ELSE m.subs,
     meta |-> DictDel(m.meta, w)]

\* the cleanup loops of lines 78-79 and 100-101
RECURSIVE DisconnectEach(_, _)
DisconnectEach(m, list) ==
    IF list = <<>> THEN m ELSE DisconnectEach(Disconnect(m, Head(list)), Tail(list))

\* send_text on websocket w returns (TRUE) or raises (FALSE)
SendOk(w) == sockets[w].link = "up"

\* send_personal_message (lines 54-60), once the manager is in state m
SendPersonalMessage(m, w) == IF SendOk(w) THEN m ELSE Disconnect(m, w)

\* the running broadcasts keep track of the websockets that have been in
\* the connection list since they began
Pruned(bs, conns) ==
    [i \in DOMAIN bs |->
        IF bs[i].pc = "sending"
        THEN [bs[i] EXCEPT !.stayed = @ \cap Range(conns)]
        ELSE bs[i]]

\* websocket_endpoint (main.py 243-246) with connect (lines 18-34): a
\* websocket reaches the endpoint once; the welcome message may already fail
Connect(w) ==
    /\ sockets[w].endpoint = "idle"
    /\ \E link \in {"up", "down"} :
          LET m0 == [conns |-> Append(active_connections, w),
                     subs |-> project_subscriptions,
                     meta |-> DictPut(connection_metadata, w, {})]
              m == IF link = "up" THEN m0 ELSE Disconnect(m0, w)
          IN /\ SetManager(m)
             /\ sockets' = [sockets EXCEPT ![w].endpoint = "open", ![w].link = link]
             /\ broadcasts' = Pruned(broadcasts, m.conns)
    /\ UNCHANGED inbox

\* subscribe_to_project (lines 105-121), called by the endpoint for a
\* "subscribe" message (main.py 256-260) while its loop runs
SubscribeToProject(w, p) ==
    /\ sockets[w].endpoint = "open"
    /\ sockets[w].handled < MaxMessages
    /\ LET m0 == [conns |-> active_connections,
                  subs |-> DictPut(project_subscriptions, p,
                              (IF p \in DOMAIN project_subscriptions
                               THEN project_subscriptions[p] ELSE {}) \cup {w}),
                  meta |-> IF w \in DOMAIN connection_metadata
                           THEN [connection_metadata EXCEPT ![w] = @ \cup {p}]
                           ELSE connection_metadata]
           m == SendPersonalMessage(m0, w)
       IN /\ SetManager(m)
          /\ broadcasts' = Pruned(broadcasts, m.conns)
    /\ sockets' = [sockets EXCEPT ![w].handled = @ + 1]
    /\ UNCHANGED inbox

\* unsubscribe_from_project (lines 123-137)
UnsubscribeFromProject(w, p) ==
    /\ sockets[w].endpoint = "open"
    /\ sockets[w].handled < MaxMessages
    /\ LET m0 == [conns |-> active_connections,
                  subs |-> DropSubscription(project_subscriptions, w, p),
                  meta |-> IF w \in DOMAIN connection_metadata
                           THEN [connection_metadata EXCEPT ![w] = @ \ {p}]
                           ELSE connection_metadata]
           m == SendPersonalMessage(m0, w)
       IN /\ SetManager(m)
          /\ broadcasts' = Pruned(broadcasts, m.conns)
    /\ sockets' = [sockets EXCEPT ![w].handled = @ + 1]
    /\ UNCHANGED inbox

\* the transport of a websocket goes down; its endpoint has not seen it yet
Break(w) ==
    /\ sockets[w].endpoint = "open"
    /\ sockets[w].link = "up"
    /\ sockets' = [sockets EXCEPT ![w].link = "down"]
    /\ UNCHANGED <<active_connections, project_subscriptions, connection_metadata,
                   inbox, broadcasts>>

\* receive_text raises in the endpoint, which calls disconnect and ends
\* (main.py 262-266)
EndpointDisconnect(w) ==
    /\ sockets[w].endpoint = "open"
    /\ LET m == Disconnect(ManagerState, w)
       IN /\ SetManager(m)
          /\ broadcasts' = Pruned(broadcasts, m.conns)
    /\ sockets' = [sockets EXCEPT ![w].endpoint = "closed", ![w].link = "down"]
    /\ UNCHANGED inbox

\* a call of broadcast or broadcast_to_project: targets is the list copied
\* at line 90, next the position of the iterator, audience the websockets in
\* the set (the list) when the call began
BroadcastRecord(kind, p, targets, audience) ==
    [kind |-> kind, project |-> p, targets |-> targets, next |-> 1,
     disconnected |-> <<>>, audience |-> audience, stayed |-> audience,
     pc |-> "sending"]

\* one pass of the loop of line 70 (over the live list) or of line 92 (over
\* the copy): the next send, or the end of the loop and the cleanup after it
BroadcastIterate(bs, b) ==
    LET list == IF bs[b].kind = "all" THEN active_connections ELSE bs[b].targets
    IN IF bs[b].next <= Len(list)
       THEN LET c == list[bs[b].next] IN
            /\ IF SendOk(c)
               THEN /\ inbox' = [inbox EXCEPT ![c] = Append(@, b)]
                    /\ broadcasts' = [bs EXCEPT ![b].next = @ + 1]
               ELSE /\ inbox' = inbox
                    /\ broadcasts' = [bs EXCEPT ![b].next = @ + 1,
                                                ![b].disconnected = Append(@, c)]
            /\ UNCHANGED <<active_connections, project_subscriptions,
                           connection_metadata>>
       ELSE LET m == DisconnectEach(ManagerState, bs[b].disconnected) IN
            /\ SetManager(m)
            /\ broadcasts' = Pruned([bs EXCEPT ![b].pc = "done"], m.conns)
            /\ UNCHANGED inbox

\* broadcast (lines 62-81): from the call to the first send
Broadcast ==
    /\ Len(broadcasts) < MaxBroadcasts
    /\ IF active_connections = <<>>
       THEN /\ broadcasts' = Append(broadcasts,
                    [BroadcastRecord("all", "none", <<>>, {}) EXCEPT !.pc = "done"])
            /\ UNCHANGED <<active_connections, project_subscriptions,
                           connection_metadata, inbox>>
       ELSE BroadcastIterate(
                Append(broadcasts,
                       BroadcastRecord("all", "none", <<>>, Range(active_connections))),
                Len(broadcasts) + 1)
    /\ UNCHANGED sockets

\* the orders in which a set may be listed
Orders(S) ==
    {f \in [1..Cardinality(S) -> S] : \A i, j \in DOMAIN f : f[i] = f[j] => i = j}

\* the list taken for every connection instead of the subscribers
SubscribersEveryone(p) == Range(active_connections)

\* the set copied at line 90
Subscribers(p) == project_subscriptions[p]

\* broadcast_to_project (lines 83-103): from the call to the first send
BroadcastToProject(p) ==
    /\ Len(broadcasts) < MaxBroadcasts
    /\ IF p \notin DOMAIN project_subscriptions
       THEN /\ broadcasts' = Append(broadcasts,
                    [BroadcastRecord("project", p, <<>>, {}) EXCEPT !.pc = "done"])
            /\ UNCHANGED <<active_connections, project_subscriptions,
                           connection_metadata, inbox>>
       ELSE \E targets \in Orders(Subscribers(p)) :
                BroadcastIterate(
                    Append(broadcasts,
                           BroadcastRecord("project", p, targets,
                                           project_subscriptions[p])),
                    Len(broadcasts) + 1)
    /\ UNCHANGED sockets

\* a broadcast resumes after a send
BroadcastStep(b) ==
    /\ broadcasts[b].pc = "sending"
    /\ BroadcastIterate(broadcasts, b)
    /\ UNCHANGED sockets

NextManager ==
    \/ \E w \in Observers : Connect(w) /\ UNCHANGED <<wfvars, aovars>>
    \/ \E w \in Observers, p \in WsProjects :
           SubscribeToProject(w, p) /\ UNCHANGED <<wfvars, aovars>>
    \/ \E w \in Observers : Break(w) /\ UNCHANGED <<wfvars, aovars>>
    \/ \E w \in Observers : EndpointDisconnect(w) /\ UNCHANGED <<wfvars, aovars>>
    \/ Broadcast /\ UNCHANGED <<wfvars, aovars>>
    \/ \E b \in DOMAIN broadcasts : BroadcastStep(b) /\ UNCHANGED <<wfvars, aovars>>

\* subscriptions, their removal and project broadcasts
NextProject ==
    \/ \E w \in Observers : Connect(w) /\ UNCHANGED <<wfvars, aovars>>
    \/ \E w \in Observers, p \in WsProjects :
           SubscribeToProject(w, p) /\ UNCHANGED <<wfvars, aovars>>
    \/ \E w \in Observers, p \in WsProjects :
           UnsubscribeFromProject(w, p) /\ UNCHANGED <<wfvars, aovars>>
    \/ \E w \in Observers : Break(w) /\ UNCHANGED <<wfvars, aovars>>
    \/ \E w \in Observers : EndpointDisconnect(w) /\ UNCHANGED <<wfvars, aovars>>
    \/ \E p \in WsProjects : BroadcastToProject(p) /\ UNCHANGED <<wfvars, aovars>>
    \/ \E b \in DOMAIN broadcasts : BroadcastStep(b) /\ UNCHANGED <<wfvars, aovars>>

\* the connection manager under project broadcasts
SpecProject == Init /\ [][NextProject]_vars

\* the connection manager under any interleaving of endpoints and broadcasts
\* to every connection
SpecManager == Init /\ [][NextManager]_vars

\* the agent id lists a caller may pass to deploy_agents
Requests ==
    UNION {[1..n -> Agents \cup {UnknownAgent}] : n \in 0..MaxRequest}

\* the progress values a caller may pass to update_agent_progress
Progresses == {-10, 50, 100, 150}
CompletingProgresses == {p \in Progresses : p = 100}

\* those that name pool agents only, each at most once
DistinctRequests ==
    {ids \in Requests : /\ ids # <<>>
                        /\ \A i \in DOMAIN ids : ids[i] \in Agents
                        /\ \A i, j \in DOMAIN ids : ids[i] = ids[j] => i = j}

\* those that name one pool agent
SingleRequests == {ids \in DistinctRequests : Len(ids) = 1}

NextAgents ==
    \/ \E p \in AgentProjects, ids \in DistinctRequests, task \in Tasks :
           DeployAgents(p, ids, task) /\ UNCHANGED <<wfvars, wsvars>>
    \/ \E key \in CallerKeys, progress \in Progresses :
           UpdateAgentProgress(key, progress, NoLogs) /\ UNCHANGED <<wfvars, wsvars>>
    \/ \E p \in AgentProjects : RecallAgents(p) /\ UNCHANGED <<wfvars, wsvars>>
    \/ AdvanceClock /\ UNCHANGED <<wfvars, wsvars>>

\* the same calls (progress updates with the completing value only) beside
\* simulate_agent_work coroutines
NextSim ==
    \/ \E p \in AgentProjects, ids \in DistinctRequests, task \in Tasks :
           DeployAgents(p, ids, task) /\ UNCHANGED <<wfvars, wsvars>>
    \/ \E key \in KnownKeys \cup {MissingKey}, progress \in CompletingProgresses :
           UpdateAgentProgress(key, progress, NoLogs) /\ UNCHANGED <<wfvars, wsvars>>
    \/ \E p \in AgentProjects : RecallAgents(p) /\ UNCHANGED <<wfvars, wsvars>>
    \/ \E key \in KnownKeys \cup {MissingKey} : SimulateAgentWork(key) /\ UNCHANGED <<wfvars, wsvars>>
    \/ \E i \in DOMAIN sims : SimTick(i) /\ UNCHANGED <<wfvars, wsvars>>

\* deploy_agents with any id list (unknown and repeated ids included),
\* completing updates and recalls
NextBatch ==
    \/ \E p \in AgentProjects, ids \in Requests, task \in Tasks :
           DeployAgents(p, ids, task) /\ UNCHANGED <<wfvars, wsvars>>
    \/ \E key \in KnownKeys \cup {MissingKey}, progress \in CompletingProgresses :
           UpdateAgentProgress(key, progress, NoLogs) /\ UNCHANGED <<wfvars, wsvars>>
    \/ \E p \in AgentProjects : RecallAgents(p) /\ UNCHANGED <<wfvars, wsvars>>

\* progress updates that carry log entries
NextLogs ==
    \/ \E p \in AgentProjects, ids \in SingleRequests, task \in Tasks :
           DeployAgents(p, ids, task) /\ UNCHANGED <<wfvars, wsvars>>
    \/ \E key \in CallerKeys, progress \in Progresses, logs \in LogBatches :
           UpdateAgentProgress(key, progress, logs) /\ UNCHANGED <<wfvars, wsvars>>
    \/ \E p \in AgentProjects : RecallAgents(p) /\ UNCHANGED <<wfvars, wsvars>>

\* the orchestrator under progress updates with logs
SpecLogs == Init /\ [][NextLogs]_vars

\* AgentOrchestrator.__init__ (agent_orchestrator.py 13-67) alone: the
\* metrics are the empty dict of line 67 until initialize is called
InitCold ==
    /\ agent_pool = [a \in Agents |->
            [status |-> "available", current_task |-> NoTask, load |-> 0]]
    /\ active_agents = <<>>
    /\ deployment_history = <<>>
    /\ performance_metrics = <<>>
    /\ sims = <<>>
    /\ now = 0
    /\ result = [op |-> "none"]
    /\ InitManager
    /\ active_workflows = <<>>
    /\ runs = <<>>
    /\ tasks = <<>>
    /\ stops = <<>>
    /\ events = [p \in Projects |-> <<>>]
    /\ start_response = Response("none", 0)

\* initialize (lines 69-81): a fresh metrics entry for every pool agent; it
\* is called once (startup_event, main.py 83)
Initialize ==
    /\ performance_metrics = <<>>
    /\ performance_metrics' = InitialMetrics
    /\ result' = [op |-> "initialize"]
    /\ UNCHANGED <<agent_pool, active_agents, deployment_history, sims, now>>

\* the project the calls of NextCold are made for
ColdProjects == {"p1"}

\* the calls made on an orchestrator that may not have been initialized
NextCold ==
    \/ Initialize /\ UNCHANGED <<wfvars, wsvars>>
    \/ \E p \in ColdProjects, ids \in SingleRequests, task \in Tasks :
           DeployAgents(p, ids, task) /\ UNCHANGED <<wfvars, wsvars>>
    \/ \E key \in CallerKeys, progress \in CompletingProgresses :
           UpdateAgentProgress(key, progress, NoLogs) /\ UNCHANGED <<wfvars, wsvars>>
    \/ \E p \in ColdProjects : RecallAgents(p) /\ UNCHANGED <<wfvars, wsvars>>

\* the orchestrator from its construction on
SpecCold == InitCold /\ [][NextCold]_vars

\* the orchestrator under batches of any shape
SpecBatch == Init /\ [][NextBatch]_vars

\* the orchestrator under any sequence of calls
SpecAgents == Init /\ [][NextAgents]_vars

\* the orchestrator with simulate_agent_work running beside the calls
SpecSim == Init /\ [][NextSim]_vars

Next ==
    \/ \E p \in Projects : StartWorkflow(p) /\ UNCHANGED <<aovars, wsvars>>
    \/ \E p \in Projects : PauseWorkflow(p) /\ UNCHANGED <<aovars, wsvars>>
    \/ \E p \in Projects : StopWorkflow(p) /\ UNCHANGED <<aovars, wsvars>>
    \/ \E i \in DOMAIN stops : StopCleanup(i) /\ UNCHANGED <<aovars, wsvars>>
    \/ \E t \in DOMAIN tasks : ExecBegin(t) /\ UNCHANGED <<aovars, wsvars>>
    \/ \E t \in DOMAIN tasks : ExecStep(t) /\ UNCHANGED <<aovars, wsvars>>
    \/ \E t \in DOMAIN tasks : ExecStepFails(t) /\ UNCHANGED <<aovars, wsvars>>
    \/ \E t \in DOMAIN tasks : Tick(t) /\ UNCHANGED <<aovars, wsvars>>
    \/ \E t \in DOMAIN tasks : Settle(t) /\ UNCHANGED <<aovars, wsvars>>

\* the workflow handlers and execution loops of main.py
Spec == Init /\ [][Next]_vars

\* the next step of background task t, its executor not failing
LoopStep(t) ==
    /\ t \in DOMAIN tasks
    /\ (ExecBegin(t) \/ ExecStep(t) \/ Tick(t) \/ Settle(t))
    /\ UNCHANGED <<aovars, wsvars>>

\* the second half of stop call i
StopStep(i) ==
    /\ i \in DOMAIN stops
    /\ StopCleanup(i)
    /\ UNCHANGED <<aovars, wsvars>>

\* the event loop runs every coroutine that is ready: a background task or
\* a stop handler whose sleep is over is resumed
Fairness ==
    /\ \A t \in 1..MaxStarts : WF_vars(LoopStep(t))
    /\ \A i \in 1..MaxStops : WF_vars(StopStep(i))

\* the workflow handlers and execution loops under the scheduling of the
\* event loop
SpecFair == Init /\ [][Next]_vars /\ Fairness

(***************************************************************************)
(* Properties.                                                             *)
(***************************************************************************)
\* the messages of a given type that the execution loops have broadcast for run r
LoopEventCount(r, type) ==
    LET RECURSIVE Sum(_)
        Sum(n) == IF n = 0 THEN 0
                  ELSE Sum(n - 1) + Cardinality({i \in DOMAIN tasks[n].emitted :
                           /\ tasks[n].emitted[i].run = r
                           /\ tasks[n].emitted[i].type = type})
    IN Sum(Len(tasks))

\* the workflow_stopped messages of the stop calls that marked run r stopped
StoppedEventCount(r) ==
    Cardinality({i \in DOMAIN events[runs[r].project] :
        /\ events[runs[r].project][i].type = "workflow_stopped"
        /\ events[runs[r].project][i].run = r})

Last(s) == s[Len(s)]

\* C1: a start_workflow call for a project id that has an entry in the
\* active-run table is rejected, launches no execution loop, and leaves the
\* table and every run (status, current step, step list) as they were.
C1_RejectedStartChangesNothing ==
    [][\A p \in Projects :
          (p \in DOMAIN active_workflows /\ StartWorkflow(p))
          => /\ start_response' = Response(p, 500)
             /\ tasks' = tasks
             /\ runs' = runs
             /\ active_workflows' = active_workflows]_vars

\* a start was rejected while the project's run was in its second step
C1_Witness ==
    \E p \in DOMAIN active_workflows :
        /\ start_response = Response(p, 500)
        /\ runs[active_workflows[p]].status = "running"
        /\ runs[active_workflows[p]].current_step = 1

\* C2: whatever the interleaving of start_workflow requests, a step that
\* launches an execution loop for a project starts from a table without an
\* entry for it, launches exactly one loop and one run, and leaves that run
\* in the table: no two starts both find the project absent.
C2_OneStartPerAbsence ==
    [][\A p \in Projects :
          (\E t \in DOMAIN tasks' : t \notin DOMAIN tasks /\ tasks'[t].project = p)
          => /\ p \notin DOMAIN active_workflows
             /\ Len(tasks') = Len(tasks) + 1
             /\ Len(runs') = Len(runs) + 1
             /\ p \in DOMAIN active_workflows'
             /\ active_workflows'[p] = Len(runs')
             /\ start_response' = Response(p, 200)]_vars

\* a second start arrived before the loop of the first had begun, and was rejected
C2_Witness ==
    /\ Len(tasks) = 1
    /\ tasks[1].pc = "begin"
    /\ start_response = Response(tasks[1].project, 500)

\* C7: the current step index of a run never decreases and never exceeds
\* len(steps) - 1.
C7_StepIndexMonotonic ==
    [][\A r \in RunIds :
          /\ runs'[r].current_step >= runs[r].current_step
          /\ runs'[r].current_step <= NumSteps - 1]_vars

\* C8: once the status of a run is paused or stopped, no execution loop
\* broadcasts a further step_progress message for that run.
C8_NoProgressAfterPauseOrStop ==
    [][\A r \in RunIds :
          runs[r].status \in {"paused", "stopped"}
          => LoopEventCount(r, "step_progress")' = LoopEventCount(r, "step_progress")]_vars

\* a run was paused in the middle of a ladder, after three step_progress
\* messages, and its loop has ended with no more of them
C8_Witness ==
    \E t \in DOMAIN tasks :
        /\ tasks[t].pc = "done"
        /\ tasks[t].workflow # None
        /\ runs[tasks[t].workflow].status = "paused"
        /\ LoopEventCount(tasks[t].workflow, "step_progress") = 3

\* C9: stopping a run removes it from the active-run table after the grace
\* delay and emits exactly one workflow_stopped event for it: once every
\* stop call that marked run r stopped has returned, r is not in the table
\* and exactly one workflow_stopped message was broadcast for it.
C9_StopRemovesAndEmitsOnce ==
    \A r \in RunIds :
        (/\ \E i \in DOMAIN stops : stops[i].run = r
         /\ \A i \in DOMAIN stops : stops[i].run = r => stops[i].pc # "sleeping")
        => /\ \A p \in DOMAIN active_workflows : active_workflows[p] # r
           /\ StoppedEventCount(r) = 1

\* the messages of step idx of run r, in the order the loop emits them
StepEvents(r, idx) ==
    <<Event("step_started", r, idx, -1)>>
    \o [k \in 1..((LadderStop + LadderStep - 1) \div LadderStep) |->
            Event("step_progress", r, idx, (k - 1) * LadderStep)]
    \o <<Event("step_completed", r, idx, -1)>>

RECURSIVE StepsEvents(_, _)
StepsEvents(r, n) ==
    IF n = 0 THEN <<>> ELSE StepsEvents(r, n - 1) \o StepEvents(r, n - 1)

\* what a run of NumSteps steps is to emit from start to end
ExpectedEvents(r) == StepsEvents(r, NumSteps) \o <<Event("workflow_completed", r, -1, -1)>>

IsPrefix(s, t) == Len(s) <= Len(t) /\ \A i \in DOMAIN s : s[i] = t[i]

\* no pause and no stop has reached run r, and its executor has not failed
Undisturbed(r) ==
    /\ \A i \in DOMAIN stops : stops[i].run # r
    /\ \A i \in DOMAIN events[runs[r].project] : events[runs[r].project][i].run # r
    /\ LoopEventCount(r, "workflow_error") = 0

\* C10: a run that is never paused or stopped and whose executor never
\* fails emits step_started(i), the eleven step_progress 0..100 and
\* step_completed(i) for each step in order, then one workflow_completed and
\* nothing after it: each of these messages is emitted once, in this order.
C10_FullRunEmitsLadder ==
    \A r \in RunIds :
        Undisturbed(r)
        => /\ \A t \in DOMAIN tasks :
                  tasks[t].workflow = r => IsPrefix(tasks[t].emitted, ExpectedEvents(r))
           /\ \A t, u \in DOMAIN tasks :
                  (/\ tasks[t].workflow = r /\ tasks[u].workflow = r
                   /\ tasks[t].emitted # <<>> /\ tasks[u].emitted # <<>>) => t = u
           /\ runs[r].status = "completed"
              => \E t \in DOMAIN tasks : tasks[t].emitted = ExpectedEvents(r)

\* C3: under any sequence of deploy_agents, update_agent_progress,
\* recall_agents and simulate_agent_work calls the load of every agent is
\* at least zero.
C3_LoadNeverNegative ==
    \A a \in Agents : agent_pool[a].load >= 0

\* an agent completed twice for one deployment batch (the second release
\* found load 0) after a simulate_agent_work coroutine ran to its end
C3_Witness ==
    /\ Len(deployment_history) = 1
    /\ \E a \in Agents : /\ performance_metrics[a].tasks_completed = 2
                         /\ agent_pool[a].load = 0
    /\ \E i \in DOMAIN sims : sims[i].pc = "done" /\ sims[i].progress = 100

\* the entries of a table that belong to agent a
EntriesOf(table, a) == SelectSeq(table, LAMBDA rec : rec.agent_id = a)

\* C4: a deploy_agents call reports every requested agent whose pool status
\* is not available in failed_deployments with the reason busy and its
\* status, and leaves that agent's pool fields and its deployment records
\* as they were.
C4_BusyAgentRejected ==
    [][Len(deployment_history') = Len(deployment_history) + 1
       => \A i \in DOMAIN Last(deployment_history').agents_requested :
            LET a == Last(deployment_history').agents_requested[i] IN
            (a \in Agents /\ agent_pool[a].status # "available")
            => /\ \E j \in DOMAIN result'.failed_deployments :
                     result'.failed_deployments[j] =
                         [agent_id |-> a,
                          reason |-> <<"Agent busy", agent_pool[a].status>>]
               /\ agent_pool'[a] = agent_pool[a]
               /\ EntriesOf(active_agents', a) = EntriesOf(active_agents, a)]_vars

\* a batch in which one agent was busy and the other was deployed
C4_Witness ==
    /\ result.op = "deploy"
    /\ Len(result.deployed_agents) = 1
    /\ \E j \in DOMAIN result.failed_deployments :
           result.failed_deployments[j].reason = <<"Agent busy", "deployed">>

\* the deployments of agent a that deploy_agents has made
DeploymentsOf(a) ==
    Cardinality({<<i, j>> \in (DOMAIN deployment_history) \X (1..MaxRequest) :
        /\ j \in DOMAIN deployment_history[i].agents_deployed
        /\ deployment_history[i].agents_deployed[j] = a})

\* C5: update_agent_progress with progress >= 100 is idempotent: the
\* completion counter of an agent is incremented once per deployment only.
C5_CompletionCountedOnce ==
    \A a \in Agents : performance_metrics[a].tasks_completed <= DeploymentsOf(a)

\* a record counts as an active deployment until it is completed or
\* recalled (deploy_agents stores it with the pool status "available")
ActiveRecordAgents(p) ==
    {active_agents[i].agent_id : i \in {j \in DOMAIN active_agents :
        /\ active_agents[j].project_id = p
        /\ active_agents[j].status \notin {"completed", "recalled"}}}

\* C6: recall_agents(project_id) removes every deployment record of the
\* project and returns exactly the agent ids that had an active deployment
\* for it immediately before the call.
C6_RecallReturnsActiveAgents ==
    [][\A p \in AgentProjects :
          RecallAgents(p)
          => /\ \A i \in DOMAIN active_agents' : active_agents'[i].project_id # p
             /\ {result'.recalled_agents[i] : i \in DOMAIN result'.recalled_agents}
                    = ActiveRecordAgents(p)]_vars

\* C11: a deploy_agents call for distinct pool agents that are all available
\* leaves each of them deployed, with load 1 and the task as current_task;
\* a recall_agents call for that project that follows it leaves each of them
\* available, with load 0 and no current_task, and no record of the project.
C11_DeployThenRecallRoundTrip ==
    [][/\ Len(deployment_history') = Len(deployment_history) + 1
          => LET rec == Last(deployment_history') IN
             (\A i \in DOMAIN rec.agents_requested :
                  agent_pool[rec.agents_requested[i]].status = "available")
             => \A i \in DOMAIN rec.agents_requested :
                  agent_pool'[rec.agents_requested[i]] =
                      [status |-> "deployed", current_task |-> rec.task, load |-> 1]
       /\ \A p \in AgentProjects :
             (/\ result.op = "deploy"
              /\ ~result.error
              /\ result.deployment_id = DeploymentId(now, p)
              /\ result.total_deployed = result.total_requested
              /\ RecallAgents(p))
             => /\ \A i \in DOMAIN result.deployed_agents :
                      agent_pool'[result.deployed_agents[i]] =
                          [status |-> "available", current_task |-> NoTask, load |-> 0]
                /\ \A i \in DOMAIN active_agents' : active_agents'[i].project_id # p]_vars

\* two agents were deployed to a project in one batch and the recall that
\* followed returned both
C11_Witness ==
    /\ result.op = "recall"
    /\ result.total_recalled = 2
    /\ Len(deployment_history) = 1
    /\ Len(deployment_history[1].agents_deployed) = 2
    /\ \A a \in Agents :
           agent_pool[a] = [status |-> "available", current_task |-> NoTask, load |-> 0]

\* the status changes of the state machine: running to paused, stopped,
\* completed or error, and paused to running or stopped
AllowedTransition(from, to) ==
    \/ from = to
    \/ from = "running" /\ to \in {"paused", "stopped", "completed", "error"}
    \/ from = "paused" /\ to \in {"running", "stopped"}

\* C12: every change of the status of a run is a transition of the state
\* machine; a stopped, completed or error run never changes status again.
C12_StatusFollowsStateMachine ==
    [][\A r \in RunIds : AllowedTransition(runs[r].status, runs'[r].status)]_vars

\* C13: pause_workflow on a run whose status is not running leaves the
\* status of the run as it was.
C13_PauseOnlyWhenRunning ==
    [][\A p \in Projects :
          (/\ p \in DOMAIN active_workflows
           /\ runs[active_workflows[p]].status # "running"
           /\ PauseWorkflow(p))
          => runs'[active_workflows[p]].status = runs[active_workflows[p]].status]_vars

\* the status codes of the client-error class
ClientErrorCodes == 400..499

\* C14: a start_workflow request rejected because the project has a run is
\* answered with a client-error (Conflict) outcome, not with the
\* server-error outcome of an unexpected failure.
C14_DuplicateStartIsConflict ==
    [][\A p \in Projects :
          (p \in DOMAIN active_workflows /\ StartWorkflow(p))
          => start_response'.code \in ClientErrorCodes]_vars

\* the workflow_error messages an execution loop has broadcast
ErrorCount(t) == CountType(tasks[t].emitted, "workflow_error")

\* C15: when the executor fails in an execution loop, the status of the run
\* becomes error with the error recorded, the loop broadcasts one
\* workflow_error message and ends; it broadcasts nothing after that message
\* and no loop is launched to run the step again.
C15_FailureEndsLoop ==
    [][\A t \in DOMAIN tasks :
          /\ ErrorCount(t)' > ErrorCount(t)
             => /\ ErrorCount(t)' = 1
                /\ Last(tasks'[t].emitted).type = "workflow_error"
                /\ runs'[tasks[t].workflow].status = "error"
                /\ runs'[tasks[t].workflow].error
                /\ tasks'[t].pc = "done"
                /\ Len(tasks') = Len(tasks)
          /\ ErrorCount(t) > 0 => tasks'[t] = tasks[t]]_vars

\* the executor failed in the second step of a run, after the whole ladder
\* of the first, and a start request for the project came after the failure
C15_Witness ==
    \E t \in DOMAIN tasks :
        /\ ErrorCount(t) = 1
        /\ tasks[t].step_index = 1
        /\ tasks[t].pc = "done"
        /\ runs[tasks[t].workflow].status = "error"
        /\ start_response = Response(tasks[t].project, 500)

\* what a batch is to report, id by id in request order: taken holds the
\* agents the batch has deployed so far
RECURSIVE ExpectedBatch(_, _, _)
ExpectedBatch(pool, ids, taken) ==
    IF ids = <<>> THEN [deployed |-> <<>>, failed |-> <<>>]
    ELSE LET a == Head(ids)
             ok == a \in DOMAIN pool /\ pool[a].status = "available" /\ a \notin taken
             rest == ExpectedBatch(pool, Tail(ids), IF ok THEN taken \cup {a} ELSE taken)
             why == IF a \notin DOMAIN pool THEN <<"Agent not found in pool">>
                    ELSE IF a \in taken THEN <<"Agent busy", "deployed">>
                    ELSE <<"Agent busy", pool[a].status>>
         IN IF ok
            THEN [rest EXCEPT !.deployed = <<a>> \o @]
            ELSE [rest EXCEPT !.failed = <<[agent_id |-> a, reason |-> why]>> \o @]

\* C16: deploy_agents handles the requested ids one by one in request order:
\* an id that is in the pool and available at its turn is deployed, every
\* other id is reported with its reason, a failure neither stops the ids
\* after it nor undoes those before it, and total_requested is the number
\* deployed plus the number failed.
C16_BatchIsPerAgent ==
    [][Len(deployment_history') = Len(deployment_history) + 1
       => LET ids == Last(deployment_history').agents_requested
              exp == ExpectedBatch(agent_pool, ids, {})
          IN /\ result'.deployed_agents = exp.deployed
             /\ result'.failed_deployments = exp.failed
             /\ result'.total_requested = Len(ids)
             /\ result'.total_requested
                    = Len(result'.deployed_agents) + Len(result'.failed_deployments)
             /\ \A i \in DOMAIN exp.deployed :
                    /\ agent_pool'[exp.deployed[i]].status = "deployed"
                    /\ \E j \in DOMAIN active_agents' :
                           /\ active_agents'[j].agent_id = exp.deployed[i]
                           /\ active_agents'[j].project_id
                                  = Last(deployment_history').project_id
                           /\ active_agents'[j].progress = 0]_vars

\* a batch whose first id is not in the pool and whose second id was deployed
C16_Witness ==
    /\ result.op = "deploy"
    /\ Len(deployment_history) > 0
    /\ Last(deployment_history).agents_requested = <<UnknownAgent, "pm">>
    /\ result.deployed_agents = <<"pm">>
    /\ Len(result.failed_deployments) = 1

\* C17: when a broadcast to every connection has ended, every websocket that
\* was in the connection list from its start to its end has been sent the
\* message (its own send may have failed), whatever failed or disconnected
\* meanwhile.
C17_BroadcastReachesEveryObserver ==
    \A b \in DOMAIN broadcasts :
        (broadcasts[b].kind = "all" /\ broadcasts[b].pc = "done")
        => \A w \in broadcasts[b].stayed :
               \/ b \in Range(inbox[w])
               \/ w \in Range(broadcasts[b].disconnected)

\* C18: a websocket whose endpoint has disconnected (after whatever
\* connects, subscriptions, broadcasts and failed sends) is neither in the
\* connection list nor in any project's subscriber set.
C18_DisconnectedObserverInNoSet ==
    \A w \in Observers :
        sockets[w].endpoint = "closed"
        => /\ w \notin Range(active_connections)
           /\ \A p \in DOMAIN project_subscriptions : w \notin project_subscriptions[p]

\* C19: a message of broadcast_to_project reaches only websockets that were
\* in the subscriber set of the project when the call began; when the
\* project had no subscriber set it reaches nobody.
C19_ProjectBroadcastOnlyToSubscribers ==
    \A b \in DOMAIN broadcasts :
        broadcasts[b].kind = "project"
        => \A w \in Observers :
               b \in Range(inbox[w]) => w \in broadcasts[b].audience

\* a project broadcast has ended after reaching its subscriber w1, while w2,
\* connected and subscribed to another project only, got nothing from it
C19_Witness ==
    \E b \in DOMAIN broadcasts :
        /\ broadcasts[b].kind = "project"
        /\ broadcasts[b].pc = "done"
        /\ b \in Range(inbox["w1"])
        /\ b \notin Range(inbox["w2"])
        /\ "w2" \in Range(active_connections)
        /\ sockets["w2"].link = "up"
        /\ \E p \in DOMAIN project_subscriptions :
               p # broadcasts[b].project /\ "w2" \in project_subscriptions[p]

\* C20: a websocket that stays connected is sent the broadcast messages in
\* the order in which they were emitted (message i is that of call i).
C20_DeliveryPreservesEmissionOrder ==
    \A w \in Observers :
        (sockets[w].endpoint = "open" /\ sockets[w].link = "up")
        => \A i, j \in DOMAIN inbox[w] : i < j => inbox[w][i] < inbox[w][j]

\* C21: update_agent_progress with a deployment key that is not in the
\* deployment table (a key that never was in it, or the key of a record that
\* was recalled) returns false and leaves the pool, the table, the metrics
\* and the history as they were, whatever progress and logs it is given.
C21_UnknownKeyIsNoOp ==
    [][\A key \in CallerKeys, progress \in Progresses, logs \in LogBatches :
          (/\ key \notin KnownKeys
           /\ result'.op = "update"
           /\ result'.key = key
           /\ UpdateAgentProgress(key, progress, logs))
          => /\ result'.ret = "False"
             /\ agent_pool' = agent_pool
             /\ active_agents' = active_agents
             /\ performance_metrics' = performance_metrics
             /\ deployment_history' = deployment_history]_vars

\* a progress update came for the key of a record that had been recalled,
\* while the agent of that record was deployed again
C21_Witness ==
    /\ result.op = "update"
    /\ result.key \in RecalledKeys
    /\ result.ret = "False"
    /\ agent_pool[result.key[3]].status = "deployed"

\* run r has status completed and its workflow_completed message is out
Completed(r) ==
    /\ runs[r].status = "completed"
    /\ LoopEventCount(r, "workflow_completed") > 0

\* C22: under fair scheduling a started run that no pause, stop or executor
\* failure reaches eventually has status completed with workflow_completed
\* emitted; and once a run is paused, stopped or failed, the execution loop
\* launched with it eventually ends.
C22_RunsCompleteAndLoopsEnd ==
    /\ \A r \in 1..MaxStarts :
           (r \in RunIds) ~> (r \in RunIds /\ (~Undisturbed(r) \/ Completed(r)))
    /\ \A r \in 1..MaxStarts :
           (r \in RunIds /\ runs[r].status \in {"paused", "stopped", "error"})
           ~> (r \in RunIds /\ tasks[r].pc = "done")

\* C23: when an execution loop leaves the progress ladder of a step early,
\* the status of its run being no longer running, the step is not marked
\* completed, gets no result, and no step_completed message is broadcast
\* for it.
C23_EarlyExitLeavesStepUnmarked ==
    [][\A t \in DOMAIN tasks :
          (/\ tasks[t].pc \in {"exec", "tick"}
           /\ tasks'[t].pc \notin {"exec", "tick"}
           /\ runs[tasks[t].workflow].status # "running")
          => /\ runs'[tasks[t].workflow].steps[tasks[t].step_index + 1]
                    = runs[tasks[t].workflow].steps[tasks[t].step_index + 1]
             /\ CountType(tasks'[t].emitted, "step_completed")
                    = CountType(tasks[t].emitted, "step_completed")]_vars

\* C24: workflow_completed is broadcast at most once for a run; the step
\* that broadcasts it finds the status of the run running and every step of
\* it marked completed, and leaves the status completed; no pause and no stop
\* has reached the run before.
C24_CompletedOnceAfterAllSteps ==
    [][\A t \in DOMAIN tasks :
          (/\ Len(tasks'[t].emitted) > Len(tasks[t].emitted)
           /\ Last(tasks'[t].emitted).type = "workflow_completed")
          => LET r == Last(tasks'[t].emitted).run IN
             /\ Len(tasks'[t].emitted) = Len(tasks[t].emitted) + 1
             /\ LoopEventCount(r, "workflow_completed") = 0
             /\ runs[r].status = "running"
             /\ runs'[r].status = "completed"
             /\ \A i \in 1..NumSteps : runs[r].steps[i].status = "completed"
             /\ \A i \in DOMAIN stops : stops[i].run # r
             /\ \A i \in DOMAIN events[runs[r].project] :
                    events[runs[r].project][i].run # r]_vars

\* a run was completed by one of two execution loops bound to it, and the
\* other loop has ended without a second workflow_completed
C24_Witness ==
    \E r \in RunIds :
        /\ runs[r].status = "completed"
        /\ LoopEventCount(r, "workflow_completed") = 1
        /\ \E t, u \in DOMAIN tasks :
               /\ t # u
               /\ tasks[t].workflow = r /\ tasks[u].workflow = r
               /\ tasks[t].pc = "done" /\ tasks[u].pc = "done"

\* the record under key has a status from which it can still be completed
\* or recalled
IsLive(table, key) ==
    /\ IndexOf(table, key) # 0
    /\ table[IndexOf(table, key)].status \notin {"completed", "recalled"}

\* C25: the load of an agent decreases only in a step in which a deployment
\* record of that agent that was neither completed nor recalled becomes
\* completed or is recalled; a repeated call on a completed record lowers no
\* load.
C25_LoadFallsOnlyOnRelease ==
    [][\A a \in Agents :
          agent_pool'[a].load < agent_pool[a].load
          => \E i \in DOMAIN active_agents :
                 /\ active_agents[i].agent_id = a
                 /\ IsLive(active_agents, active_agents[i].key)
                 /\ ~IsLive(active_agents', active_agents[i].key)]_vars

\* the progress stored under key
ProgressOf(table, key) == table[IndexOf(table, key)].progress

\* C26: an update_agent_progress call on a record that is neither completed
\* nor recalled leaves its stored progress at least as large as it was.
C26_ProgressNeverDecreases ==
    [][\A key \in KnownKeys, progress \in Progresses :
          (IsLive(active_agents, key) /\ UpdateAgentProgress(key, progress, NoLogs))
          => ProgressOf(active_agents', key) >= ProgressOf(active_agents, key)]_vars

\* the log list stored under key
LogsOf(table, key) == table[IndexOf(table, key)].logs

\* C27: after an update_agent_progress call on a known deployment the stored
\* progress is the input brought into 0..100 (0 for an input below 0, 100
\* for one above 100), and the log list is the last 50 entries (all of them
\* when there are fewer) of the old list followed by the new entries, in
\* their order.
C27_ProgressClampedLogsCapped ==
    [][\A key \in KnownKeys, progress \in Progresses, logs \in LogBatches :
          (/\ result'.op = "update"
           /\ result'.key = key
           /\ UpdateAgentProgress(key, progress, logs))
          => LET old == LogsOf(active_agents, key)
                 new == LogsOf(active_agents', key)
                 all == old \o [k \in 1..logs |-> Last(old) + k]
                 stored == ProgressOf(active_agents', key)
             IN /\ stored \in 0..100
                /\ progress < 0 => stored = 0
                /\ progress > 100 => stored = 100
                /\ progress \in 0..100 => stored = progress
                /\ Len(new) <= 50
                /\ Len(new) = IF Len(all) < 50 THEN Len(all) ELSE 50
                /\ \A j \in DOMAIN new : new[j] = all[Len(all) - Len(new) + j]]_vars

\* a record was given 51 log entries (its first one and two lists of 25) and
\* holds the last 50 of them, with the progress of an input of 100 or more
C27_Witness ==
    \E i \in DOMAIN active_agents :
        /\ Len(active_agents[i].logs) = 50
        /\ active_agents[i].logs[1] = 2
        /\ active_agents[i].logs[50] = 51
        /\ active_agents[i].progress = 100
        /\ result.op = "update"
        /\ result.key = active_agents[i].key

\* the project of the record under key
ProjectOf(table, key) == table[IndexOf(table, key)].project_id

C29_HistoryAppendOnly ==
    [][/\ IsPrefix(deployment_history, deployment_history')
       /\ \A p \in AgentProjects, ids \in Requests, task \in Tasks :
             (/\ result'.op = "deploy"
              /\ ~result'.error
              /\ DeployAgents(p, ids, task))
             => /\ Len(deployment_history') = Len(deployment_history) + 1
                /\ Last(deployment_history').deployment_id = result'.deployment_id
                /\ Last(deployment_history').agents_requested = ids
                /\ Last(deployment_history').agents_deployed = result'.deployed_agents]_vars

\* the history holds the record of a batch that deployed an agent followed
\* by the record of a batch that deployed none, after a recall
C29_Witness ==
    /\ Len(deployment_history) = 2
    /\ deployment_history[1].agents_deployed # <<>>
    /\ deployment_history[2].agents_deployed = <<>>
    /\ deployment_history[2].agents_requested # <<>>
    /\ result.op = "recall"
    /\ result.total_recalled > 0

\* the runs that an execution loop bound to them is still working on
RunsInLoop == {tasks[t].workflow : t \in {u \in DOMAIN tasks :
                   tasks[u].pc \notin {"begin", "done"}}}

\* C30: the delayed removal of a stop_workflow call removes only the run
\* that the call marked stopped, under every interleaving of stop and start
\* requests: no run is deleted from the active-run table while its status
\* is running, and no run that an execution loop is working on has status
\* running while it is absent from the table.
C30_StopRemovesOnlyItsRun ==
    [][/\ \A i \in DOMAIN stops, p \in DOMAIN active_workflows :
             (stops[i].project = p /\ StopCleanup(i) /\ p \notin DOMAIN active_workflows')
             => /\ active_workflows[p] = stops[i].run
                /\ runs[active_workflows[p]].status # "running"
       /\ \A r \in RunsInLoop' :
             runs'[r].status = "running"
             => \E p \in DOMAIN active_workflows' : active_workflows'[p] = r]_vars

\* the records of agent a that are neither completed nor recalled
LiveRecords(a) ==
    {i \in DOMAIN active_agents :
        /\ active_agents[i].agent_id = a
        /\ IsLive(active_agents, active_agents[i].key)}

\* C31: in every reachable state the load of every agent is the number of
\* deployment records of it that are neither completed nor recalled; an
\* available agent has no such record and no agent has two of them.
C31_LoadCountsLiveRecords ==
    \A a \in Agents :
        /\ agent_pool[a].load = Cardinality(LiveRecords(a))
        /\ agent_pool[a].status = "available" => LiveRecords(a) = {}
        /\ Cardinality(LiveRecords(a)) <= 1

\* the records of a table that do not belong to project p
RecordsOutside(table, p) == SelectSeq(table, LAMBDA rec : rec.project_id # p)

\* C32: recall_agents of a project leaves the pool fields of every agent
\* that has a record, neither completed nor recalled, of another project as
\* they were, and leaves the records of the other projects as they were,
\* also when the recalled project holds a completed record of that agent.
C32_RecallLeavesOtherProjects ==
    [][\A p \in AgentProjects :
          (result'.op = "recall" /\ RecallAgents(p))
          => /\ RecordsOutside(active_agents', p) = RecordsOutside(active_agents, p)
             /\ \A a \in Agents :
                    (\E i \in LiveRecords(a) : active_agents[i].project_id # p)
                    => agent_pool'[a] = agent_pool[a]]_vars

\* C33: in every reachable state the pool status of every agent is
\* available exactly when its load is 0, and no load is greater than 1.
C33_AvailableIffIdle ==
    \A a \in Agents :
        /\ agent_pool[a].status = "available" <=> agent_pool[a].load = 0
        /\ agent_pool[a].load <= 1

\* one agent was released twice for its only deployment and is available
\* with load 0, while the other is deployed with load 1
C33_Witness ==
    \E a, b \in Agents :
        /\ DeploymentsOf(a) = 1
        /\ performance_metrics[a].tasks_completed = 2
        /\ agent_pool[a].status = "available"
        /\ agent_pool[a].load = 0
        /\ agent_pool[b].status = "deployed"
        /\ agent_pool[b].load = 1

\* run r is the entry of its project in the active-run table
InTable(r) ==
    /\ runs[r].project \in DOMAIN active_workflows
    /\ active_workflows[runs[r].project] = r

\* C34: a run that reached status completed or error is in the active-run
\* table (get_workflow_status returns it and start_workflow for its project
\* is rejected) as long as no stop_workflow call has found it there.
C34_FinishedRunStaysUntilStop ==
    \A r \in RunIds :
        runs[r].status \in {"completed", "error"}
        => \/ InTable(r)
           \/ \E i \in DOMAIN stops : stops[i].run = r

\* the message types of a loop that goes on with its run
ProgressTypes == {"step_started", "step_progress", "workflow_completed"}

\* C35: once the status of a run is paused it does not become running
\* again, no execution loop broadcasts step_started, step_progress or
\* workflow_completed for the run, and the run (status, current step, step
\* list) changes only in a stop_workflow call for its project.
C35_PausedRunOnlyStops ==
    [][\A r \in RunIds :
          runs[r].status = "paused"
          => /\ runs'[r].status # "running"
             /\ \A t \in DOMAIN tasks :
                    (/\ Len(tasks'[t].emitted) > Len(tasks[t].emitted)
                     /\ Last(tasks'[t].emitted).run = r)
                    => Last(tasks'[t].emitted).type \notin ProgressTypes
             /\ runs'[r] # runs[r]
                    => /\ InTable(r)
                       /\ StopWorkflow(runs[r].project)]_vars

\* C36: a stop_workflow call for a project that has no run in the
\* active-run table broadcasts no workflow_stopped message: every
\* workflow_stopped message is that of a call that found a run.
C36_StopWithoutRunIsSilent ==
    [][\A p \in Projects :
          (p \notin DOMAIN active_workflows /\ StopWorkflow(p))
          => CountType(events'[p], "workflow_stopped")
                 = CountType(events[p], "workflow_stopped")]_vars

\* C37: no stop_workflow call ends with an internal error, whatever the
\* interleaving: every call that has returned has returned the stopped
\* outcome.
C37_StopNeverFails ==
    \A i \in DOMAIN stops : stops[i].pc # "failed"

\* C38: in every reachable state every websocket that is in the subscriber
\* set of a project is in the connection list, also after a
\* subscribe_to_project call for a websocket that disconnect had removed.
C38_SubscribersAreConnected ==
    \A p \in DOMAIN project_subscriptions :
        project_subscriptions[p] \subseteq Range(active_connections)

\* C39: a deploy_agents call that returns success = false (no agent could
\* be deployed, or the call failed with an internal error) leaves the pool
\* fields of every agent and the deployment table as they were.
C39_FailedDeployChangesNothing ==
    [][\A p \in ColdProjects, ids \in SingleRequests, task \in Tasks :
          (/\ result'.op = "deploy"
           /\ ~result'.success
           /\ DeployAgents(p, ids, task))
          => /\ agent_pool' = agent_pool
             /\ active_agents' = active_agents]_vars

====
